---- MODULE Spec2Model ----
(***************************************************************************)
(* The practice-test page of src/app/page.tsx: the session state of App,   *)
(* its event handlers, and the values App derives from the state on every  *)
(* render (attemptedCount, isComplete, autoScore, finalScore).             *)
(*                                                                         *)
(* A JavaScript string is a sequence of one-character strings, so that     *)
(* normalize, trim and includes are computed character by character.       *)
(***************************************************************************)
EXTENDS Integers, Sequences, FiniteSets, TLC

(***************************************************************************)
(* Characters                                                              *)
(***************************************************************************)
UpperLetters ==
    <<"A","B","C","D","E","F","G","H","I","J","K","L","M",
      "N","O","P","Q","R","S","T","U","V","W","X","Y","Z">>

LowerLetters ==
    <<"a","b","c","d","e","f","g","h","i","j","k","l","m",
      "n","o","p","q","r","s","t","u","v","w","x","y","z">>

Digits == {"0","1","2","3","4","5","6","7","8","9"}

\* the characters of the regular expression class \s (and of String.trim)
\* that a textarea can hold
WhiteSpace == {" ", "\t", "\n"}

Range(f) == {f[i] : i \in DOMAIN f}

\* the letters String.prototype.toLowerCase changes
lowerOf ==
    [c \in Range(UpperLetters) |->
        LowerLetters[CHOOSE i \in 1..26 : UpperLetters[i] = c]]

\* String.prototype.toLowerCase on one character
toLowerChar(c) == IF c \in DOMAIN lowerOf THEN lowerOf[c] ELSE c

toLowerCase(s) ==
    LET out[i \in 0..Len(s)] ==
            IF i = 0 THEN <<>> ELSE Append(out[i - 1], toLowerChar(s[i]))
    IN  out[Len(s)]

\* the letters String.prototype.toUpperCase changes
upperOf ==
    [c \in Range(LowerLetters) |->
        UpperLetters[CHOOSE i \in 1..26 : LowerLetters[i] = c]]

\* String.prototype.toUpperCase on one character
toUpperChar(c) == IF c \in DOMAIN upperOf THEN upperOf[c] ELSE c

toUpperCase(s) ==
    LET out[i \in 0..Len(s)] ==
            IF i = 0 THEN <<>> ELSE Append(out[i - 1], toUpperChar(s[i]))
    IN  out[Len(s)]

\* the character class [a-z0-9\s]
AlnumOrSpace == Range(LowerLetters) \cup Digits \cup WhiteSpace

\* .replace(/[^a-z0-9\s]/g, " ")
replaceNonAlnum(s) ==
    LET out[i \in 0..Len(s)] ==
            IF i = 0 THEN <<>>
            ELSE Append(out[i - 1],
                        IF s[i] \in AlnumOrSpace THEN s[i] ELSE " ")
    IN  out[Len(s)]

\* .replace(/\s+/g, " "): every maximal run of whitespace becomes one space
\* (out[i] is the result for the first i characters: the first character of
\* a run adds a space, the rest of the run adds nothing)
collapseWhitespace(s) ==
    LET out[i \in 0..Len(s)] ==
            IF i = 0 THEN <<>>
            ELSE IF s[i] \notin WhiteSpace THEN Append(out[i - 1], s[i])
                 ELSE IF i > 1 /\ s[i - 1] \in WhiteSpace THEN out[i - 1]
                      ELSE Append(out[i - 1], " ")
    IN  out[Len(s)]

\* String.prototype.trim: from the first to the last non-whitespace character
trim(s) ==
    LET nonWs == {i \in 1..Len(s) : s[i] \notin WhiteSpace}
    IN  IF nonWs = {} THEN <<>>
        ELSE SubSeq(s, CHOOSE i \in nonWs : \A j \in nonWs : i <= j,
                       CHOOSE i \in nonWs : \A j \in nonWs : j <= i)

\* String.prototype.includes
includes(t, k) ==
    \E i \in 1..(Len(t) - Len(k) + 1) : SubSeq(t, i, i + Len(k) - 1) = k

(***************************************************************************)
(* Helpers                                                                 *)
(***************************************************************************)
\* the value undefined: a tuple that is no string (the elements of a
\* string are one-character strings)
undefined == <<"undefined">>

\* s || ""
orEmpty(s) == IF s = undefined \/ s = <<>> THEN <<>> ELSE s

\* normalize trimming first, before the punctuation turns into spaces
normalize_trimFirst(s) ==
    collapseWhitespace(replaceNonAlnum(trim(toLowerCase(orEmpty(s)))))

normalize(s) ==
    trim(collapseWhitespace(replaceNonAlnum(toLowerCase(orEmpty(s)))))

\* containsAnyKeyword searching the raw text, without normalize
containsAnyKeyword_raw(text, keywords) ==
    \E i \in DOMAIN keywords : includes(text, keywords[i])

containsAnyKeyword(text, keywords) ==
    LET t == normalize(text)
    IN  \E i \in DOMAIN keywords : includes(t, normalize(keywords[i]))

\* equalsAny comparing the raw strings, without normalize
equalsAny_raw(text, accepted) ==
    text \in {accepted[i] : i \in DOMAIN accepted}

equalsAny(text, accepted) ==
    LET t == normalize(text)
    IN  t \in {normalize(accepted[i]) : i \in DOMAIN accepted}


(***************************************************************************)
(* Tests: the catalog TESTS.  Each test keeps its sections in source       *)
(* order; of the items of a section the model keeps the ones listed here   *)
(* (at least one of every kind the test has, with the source's ids,        *)
(* answers, accepted answers and keywords).  A short item without a        *)
(* keywords property has no keywords field.                                *)
(***************************************************************************)
Opt(id, label) == [id |-> id, label |-> label]

MCQItem(id, options, answer) ==
    [id |-> id, type |-> "mcq", options |-> options, answer |-> answer]

TextAutoItem(id, acceptedAnswers) ==
    [id |-> id, type |-> "text", acceptedAnswers |-> acceptedAnswers]

ShortItem(id, keywords) ==
    [id |-> id, type |-> "short", keywords |-> keywords]

ShortItemNoKeywords(id) == [id |-> id, type |-> "short"]

WritingItem(id) == [id |-> id, type |-> "writing"]

Section(id, name, items) == [id |-> id, name |-> name, items |-> items]

TESTS ==
    [ original |-> [ sections |-> <<
        Section("reading", "Task 1: Reading Comprehension",
            << ShortItem("r1", << <<"n","e","r","v","o","u","s">>, <<"e","x","c","i","t","e","d">> >>) >>),
        Section("vocab", "Task 2: Vocabulary",
            << MCQItem("v1",
                   << Opt(<<"a">>, <<"a","n","g","r","y">>), Opt(<<"b">>, <<"e","x","c","i","t","e","d">>),
                      Opt(<<"c">>, <<"b","o","r","e","d">>) >>,
                   <<"b">>) >>),
        Section("structure", "Task 4: Sentence Structure",
            << TextAutoItem("s1", << <<"S","h","e"," ","l","i","k","e","s"," ","h","e","r"," ","n","e","w"," ","s","c","h","o","o","l",".">> >>) >>),
        Section("writing", "Task 5: Writing",
            << WritingItem("w1") >>) >> ],
      day1 |-> [ sections |-> <<
        Section("reading", "Task 1: Reading Comprehension",
            << ShortItem("q3", << <<"u","n","s","u","r","e">> >>) >>),
        Section("vocab", "Task 2: Vocabulary",
            << MCQItem("mc1",
                   << Opt(<<"a">>, <<"w","o","r","r","y">>), Opt(<<"b">>, <<"r","e","l","a","x">>),
                      Opt(<<"c">>, <<"a","r","g","u","e">>) >>,
                   <<"b">>) >>),
        Section("writing", "Task 4: Short Answer",
            << WritingItem("wDay1") >>) >> ],
      day2 |-> [ sections |-> <<
        Section("grammar", "Task 1: Grammar (Choose the correct answer)",
            << MCQItem("d2_1",
                   << Opt(<<"a">>, <<"g","o">>), Opt(<<"b">>, <<"g","o","e","s">>),
                      Opt(<<"c">>, <<"w","e","n","t">>) >>,
                   <<"b">>) >>),
        Section("sentences", "Task 2: Build sentences",
            << TextAutoItem("d2_s1", << <<"T","o","m"," ","w","e","n","t"," ","t","o"," ","s","c","h","o","o","l",".">> >>),
               ShortItemNoKeywords("d2_s2") >>),
        Section("writing", "Task 3: Short Writing",
            << WritingItem("d2_w1") >>) >> ] ]

\* the <option> values of the test select
TestKeys == {"day1", "original", "day2"}

(***************************************************************************)
(* What the user types into a textarea: the empty string (the field        *)
(* cleared), whitespace only, and per item a few sentences.                *)
(***************************************************************************)
TypedBlank == { <<>>, <<" ">> }

\* the character U+2014 (em dash)
emDash == "U+2014"

TypedSentences(id) ==
    CASE id = "s1" ->
           { <<"S","h","e"," ","l","i","k","e","s"," ","h","e","r"," ","n","e","w"," ","s","c","h","o","o","l",".">>,
             <<"s","h","e"," ","L","I","K","E","S"," ","h","e","r"," "," ","n","e","w"," ","s","c","h","o","o","l">>,
             <<"S","h","e"," ","l","i","k","e"," ","h","e","r"," ","n","e","w"," ","s","c","h","o","o","l",".">> }
      [] id = "d2_s1" ->
           { <<"T","o","m"," ","w","e","n","t"," ","t","o"," ","s","c","h","o","o","l",".">>,
             <<" "," ","t","o","m"," ","w","e","n","t",","," ","t","o"," ","S","C","H","O","O","L","!">>,
             <<"T","o","m"," ","g","o","e","s"," ","t","o"," ","s","c","h","o","o","l",".">> }
      [] id = "r1" ->
           { <<"S","h","e"," ","f","e","l","t"," ","a"," ","b","i","t"," ","n","e","r","v","o","u","s",".">>,
             <<"S","h","e"," ","f","e","l","t"," ","h","a","p","p","y",".">> }
      [] id = "q3" ->
           { <<"H","e"," ","w","a","s"," ","U","N","S","U","R","E",".">>,
             <<"H","e"," ","f","e","l","t"," ","f","i","n","e",".">> }
      [] id = "d2_s2" ->
           { <<"I"," ","l","i","k","e"," ","E","n","g","l","i","s","h",".">>,
             <<emDash>> }
      [] OTHER ->
           { <<"I"," ","l","i","k","e"," ","E","n","g","l","i","s","h",".">> }

Typed(id) == TypedBlank \cup TypedSentences(id)


(***************************************************************************)
(* App: the session state                                                  *)
(***************************************************************************)
VARIABLES
    selectedTestKey,    \* key of TESTS
    tab,                \* "read" | "test" | "results"
    answers,            \* Record<string, string>: item id -> stored answer
    selfScoreWriting,   \* null, or the number 0 or 1
    finished,           \* boolean
    lastOp,             \* the handler that ran last, with its arguments
    arg,                \* the argument of a call of normalize on its own
    ret                 \* its result, undefined before the call

vars ==
    <<selectedTestKey, tab, answers, selfScoreWriting, finished, lastOp,
      arg, ret>>

\* the session, which a call of normalize leaves alone
sessionVars ==
    <<selectedTestKey, tab, answers, selfScoreWriting, finished, lastOp>>

\* the argument and result of a call of normalize, which the handlers of
\* App leave alone
callVars == <<arg, ret>>

\* number | null: null is the empty tuple, the number n is <<n>>
null == <<>>
Num(n) == <<n>>

\* the empty object {}
EmptyAnswers == [id \in {} |-> <<>>]

\* a ?? d
Coalesce(a, d) == IF a = null THEN d ELSE a[1]

(***************************************************************************)
(* App: values derived from the state on every render                      *)
(***************************************************************************)
TEST == TESTS[selectedTestKey]

\* sections.flatMap((s) => s.items)
flatMapItems(sections) ==
    LET out[n \in 0..Len(sections)] ==
            IF n = 0 THEN <<>> ELSE out[n - 1] \o sections[n].items
    IN  out[Len(sections)]

allItems == flatMapItems(TEST.sections)

isAutoScored(it) == it.type = "mcq" \/ it.type = "text"

autoScoredItems == SelectSeq(allItems, isAutoScored)

totalAutoPoints == Len(autoScoredItems)

\* totalPoints counting every item instead of the auto-scored items plus 1
totalPoints_allItems == Len(allItems)

totalPoints == totalAutoPoints + 1

\* ans[id] is a defined value (not undefined)
hasAnswer(ans, id) == id \in DOMAIN ans

\* attemptedCount's callback without the trim
isAttempted_noTrim(ans, it) ==
    IF it.type = "mcq"
    THEN hasAnswer(ans, it.id) /\ ans[it.id] # <<>>
    ELSE hasAnswer(ans, it.id) /\ Len(ans[it.id]) > 0

\* the callback of allItems.filter in attemptedCount
isAttempted(ans, it) ==
    IF it.type = "mcq"
    THEN hasAnswer(ans, it.id) /\ ans[it.id] # <<>>
    ELSE hasAnswer(ans, it.id) /\ Len(trim(ans[it.id])) > 0

\* the useMemo factory of attemptedCount, of its dependencies
attemptedCountOf(items, ans) ==
    Cardinality({i \in 1..Len(items) : isAttempted(ans, items[i])})

attemptedCount == attemptedCountOf(allItems, answers)

\* isComplete's callback not asking for the writing item
isAnswered_skipsWriting(ans, it) ==
    IF it.type = "mcq"
    THEN hasAnswer(ans, it.id) /\ ans[it.id] # <<>>
    ELSE it.type = "writing"
         \/ (hasAnswer(ans, it.id) /\ Len(trim(ans[it.id])) > 0)

\* isComplete's callback without the trim
isAnswered_noTrim(ans, it) ==
    IF it.type = "mcq"
    THEN hasAnswer(ans, it.id) /\ ans[it.id] # <<>>
    ELSE hasAnswer(ans, it.id) /\ Len(ans[it.id]) > 0

\* the callback of allItems.every in isComplete
isAnswered(ans, it) ==
    IF it.type = "mcq"
    THEN hasAnswer(ans, it.id) /\ ans[it.id] # <<>>
    ELSE hasAnswer(ans, it.id) /\ Len(trim(ans[it.id])) > 0

\* the useMemo factory of isComplete, of its dependencies
isCompleteOf(items, ans) ==
    \A i \in 1..Len(items) : isAnswered(ans, items[i])

isComplete == isCompleteOf(allItems, answers)

\* ans[it.id] || ""
given(ans, it) ==
    IF hasAnswer(ans, it.id) /\ ans[it.id] # <<>> THEN ans[it.id] ELSE <<>>

\* the loop body counting any chosen option of an mcq item as correct
scoreOf_anyOption(ans, it) ==
    IF it.type = "mcq"
    THEN IF given(ans, it) # <<>> THEN 1 ELSE 0
    ELSE IF it.type = "text"
         THEN IF equalsAny(given(ans, it), it.acceptedAnswers) THEN 1 ELSE 0
         ELSE 0

\* one pass of the loop body of autoScore: what the item adds to correct
scoreOf(ans, it) ==
    IF it.type = "mcq"
    THEN IF given(ans, it) = it.answer THEN 1 ELSE 0
    ELSE IF it.type = "text"
         THEN IF equalsAny(given(ans, it), it.acceptedAnswers) THEN 1 ELSE 0
         ELSE 0

\* autoScore adding a point for every short answer that has a keyword
autoScoreOf_countsHints(ans, items) ==
    LET correctAfter[n \in 0..Len(items)] ==
            IF n = 0 THEN 0
            ELSE correctAfter[n - 1] + scoreOf(ans, items[n])
        hinted == {i \in 1..Len(allItems) :
                      /\ allItems[i].type = "short"
                      /\ "keywords" \in DOMAIN allItems[i]
                      /\ containsAnyKeyword(given(ans, allItems[i]),
                                            allItems[i].keywords)}
    IN  correctAfter[Len(items)] + Cardinality(hinted)

\* the useMemo factory of autoScore, of its dependencies:
\* let correct = 0; for (const it of autoScoredItems) ...; return correct
\* (correctAfter[n] is correct after the first n items)
autoScoreOf(ans, items) ==
    LET correctAfter[n \in 0..Len(items)] ==
            IF n = 0 THEN 0
            ELSE correctAfter[n - 1] + scoreOf(ans, items[n])
    IN  correctAfter[Len(items)]

autoScore == autoScoreOf(answers, autoScoredItems)

\* autoScore + (selfScoreWriting ?? 0), of the values it reads
finalScoreOf(auto, self) == auto + Coalesce(self, 0)

finalScore == finalScoreOf(autoScore, selfScoreWriting)


\* it.keywords?.length: the item has a keywords property that is not empty
hasKeywords(it) == "keywords" \in DOMAIN it /\ Len(it.keywords) > 0

\* the callback of shortItems.map in shortHints
shortHint(ans, it) ==
    LET text == given(ans, it)
    IN  [ id |-> it.id,
          ok |-> Len(trim(text)) > 0,
          hasHint |-> IF hasKeywords(it)
                      THEN containsAnyKeyword(text, it.keywords)
                      ELSE TRUE,
          keywords |-> IF "keywords" \in DOMAIN it THEN it.keywords ELSE <<>> ]

isShort(it) == it.type = "short"

\* the useMemo factory of shortHints, of its dependencies
shortHintsOf(items, ans) ==
    LET shortItems == SelectSeq(items, isShort)
        out[n \in 0..Len(shortItems)] ==
            IF n = 0 THEN <<>>
            ELSE Append(out[n - 1], shortHint(ans, shortItems[n]))
    IN  out[Len(shortItems)]

shortHints == shortHintsOf(allItems, answers)

(***************************************************************************)
(* App: the disabled attributes of the controls                            *)
(***************************************************************************)
\* the select disabled in the test view whether finished or not
selectDisabled_ignoresFinished == tab = "test"

selectDisabled == tab = "test" /\ ~finished

\* the Reading button never disabled
readingDisabled_never == FALSE

readingDisabled == tab = "test" /\ ~finished

\* the Results button never disabled
resultsDisabled_never == FALSE

resultsDisabled == ~finished

finishDisabled == ~isComplete

(***************************************************************************)
(* App: the Export textarea of the results view.  Its value is one text    *)
(* per item, `${s.name} \u2022 ${it.prompt}\nAnswer: ${...}`, joined by    *)
(* blank lines: an entry keeps the parts of the template that vary, the    *)
(* section name, the item (its id, for its prompt) and the text after      *)
(* "Answer: ".                                                             *)
(***************************************************************************)
\* "\u2014", the text put in place of an answer
placeholder == <<emDash>>

\* String(undefined), what the + operator makes of a label that was not found
undefinedText == <<"u","n","d","e","f","i","n","e","d">>

\* it.options.find((o) => o.id === a)?.label
findLabel(options, a) ==
    LET found == {k \in 1..Len(options) : options[k].id = a}
    IN  IF found = {} THEN undefined
        ELSE options[CHOOSE k \in found : \A j \in found : k <= j].label

\* the text after "Answer: ", without the trim of the other items' test
exportAnswer_noTrim(ans, it) ==
    LET a == IF hasAnswer(ans, it.id) THEN ans[it.id] ELSE undefined
        truthy == a # undefined /\ a # <<>>
    IN  IF it.type = "mcq"
        THEN IF truthy
             THEN LET label == findLabel(it.options, a)
                  IN  toUpperCase(a) \o <<")", " ">>
                        \o (IF label = undefined THEN undefinedText ELSE label)
             ELSE placeholder
        ELSE IF truthy THEN a ELSE placeholder

\* the text after "Answer: "
exportAnswer(ans, it) ==
    LET a == IF hasAnswer(ans, it.id) THEN ans[it.id] ELSE undefined
        truthy == a # undefined /\ a # <<>>
    IN  IF it.type = "mcq"
        THEN IF truthy
             THEN LET label == findLabel(it.options, a)
                  IN  toUpperCase(a) \o <<")", " ">>
                        \o (IF label = undefined THEN undefinedText ELSE label)
             ELSE placeholder
        ELSE IF truthy /\ Len(trim(a)) > 0 THEN a ELSE placeholder

\* s.items.map((it) => ...)
exportSection(sec, ans) ==
    LET out[n \in 0..Len(sec.items)] ==
            IF n = 0 THEN <<>>
            ELSE Append(out[n - 1],
                        [ name |-> sec.name,
                          id |-> sec.items[n].id,
                          answer |-> exportAnswer(ans, sec.items[n]) ])
    IN  out[Len(sec.items)]

\* TEST.sections.flatMap((s) => s.items.map(...))
exportEntriesOf(sections, ans) ==
    LET out[n \in 0..Len(sections)] ==
            IF n = 0 THEN <<>>
            ELSE out[n - 1] \o exportSection(sections[n], ans)
    IN  out[Len(sections)]

exportEntries == exportEntriesOf(TEST.sections, answers)

\* Math.round(x) for x = p / q with p >= 0 and q > 0: floor(x + 0.5)
roundDiv(p, q) == (2 * p + q) \div (2 * q)

\* Math.round((finalScore / totalPoints) * 100), shown in the results view
resultPercent == roundDiv(finalScore * 100, totalPoints)

(***************************************************************************)
(* App: handlers                                                           *)
(***************************************************************************)
Init ==
    /\ selectedTestKey = "day1"
    /\ tab = "read"
    /\ answers = EmptyAnswers
    /\ selfScoreWriting = null
    /\ finished = FALSE
    /\ lastOp = <<"init">>
    /\ arg = undefined
    /\ ret = undefined

\* setAnswer without the spread of the previous map
setAnswer_replacesMap(id, value) ==
    /\ answers' = [k \in {id} |-> value]
    /\ lastOp' = <<"setAnswer", id>>
    /\ UNCHANGED <<selectedTestKey, tab, selfScoreWriting, finished>>

\* setAnswers((prev) => ({ ...prev, [id]: value }))
setAnswer(id, value) ==
    /\ answers' = [k \in DOMAIN answers \cup {id} |->
                      IF k = id THEN value ELSE answers[k]]
    /\ lastOp' = <<"setAnswer", id>>
    /\ UNCHANGED <<selectedTestKey, tab, selfScoreWriting, finished>>

\* resetAllToReading without setSelfScoreWriting(null)
resetAllToReading_keepsSelfScore ==
    /\ answers' = EmptyAnswers
    /\ finished' = FALSE
    /\ tab' = "read"
    /\ UNCHANGED <<selectedTestKey, selfScoreWriting>>

\* resetAllToReading without setAnswers({})
resetAllToReading_keepsAnswers ==
    /\ selfScoreWriting' = null
    /\ finished' = FALSE
    /\ tab' = "read"
    /\ UNCHANGED <<selectedTestKey, answers>>

resetAllToReading ==
    /\ answers' = EmptyAnswers
    /\ selfScoreWriting' = null
    /\ finished' = FALSE
    /\ tab' = "read"
    /\ UNCHANGED selectedTestKey

\* onChangeTest without setAnswers({})
onChangeTest_keepsAnswers(key) ==
    /\ selectedTestKey' = key
    /\ selfScoreWriting' = null
    /\ finished' = FALSE
    /\ tab' = "read"
    /\ lastOp' = <<"onChangeTest", key>>
    /\ UNCHANGED answers

onChangeTest(key) ==
    /\ selectedTestKey' = key
    /\ answers' = EmptyAnswers
    /\ selfScoreWriting' = null
    /\ finished' = FALSE
    /\ tab' = "read"
    /\ lastOp' = <<"onChangeTest", key>>

\* the test select: change fires for an option other than the selected one
SelectTest ==
    /\ ~selectDisabled
    /\ \E key \in TestKeys \ {selectedTestKey} : onChangeTest(key)
    /\ UNCHANGED callVars

ClickReading ==
    /\ ~readingDisabled
    /\ tab' = "read"
    /\ lastOp' = <<"setTab", "read">>
    /\ UNCHANGED <<selectedTestKey, answers, selfScoreWriting, finished>>
    /\ UNCHANGED callVars

ClickTest ==
    /\ tab' = "test"
    /\ lastOp' = <<"setTab", "test">>
    /\ UNCHANGED <<selectedTestKey, answers, selfScoreWriting, finished>>
    /\ UNCHANGED callVars

ClickResults ==
    /\ ~resultsDisabled
    /\ tab' = "results"
    /\ lastOp' = <<"setTab", "results">>
    /\ UNCHANGED <<selectedTestKey, answers, selfScoreWriting, finished>>
    /\ UNCHANGED callVars

ClickReset ==
    /\ resetAllToReading
    /\ lastOp' = <<"reset">>
    /\ UNCHANGED callVars

\* "Start the test", rendered in the reading view
ClickStartTheTest ==
    /\ tab = "read"
    /\ tab' = "test"
    /\ lastOp' = <<"setTab", "test">>
    /\ UNCHANGED <<selectedTestKey, answers, selfScoreWriting, finished>>
    /\ UNCHANGED callVars

\* a radio button of an mcq item, rendered in the test view
ChooseOption ==
    /\ tab = "test"
    /\ \E i \in 1..Len(allItems) :
          /\ allItems[i].type = "mcq"
          /\ \E o \in 1..Len(allItems[i].options) :
                setAnswer(allItems[i].id, allItems[i].options[o].id)
    /\ UNCHANGED callVars

\* the textarea of a short, text or writing item, rendered in the test view
TypeAnswer ==
    /\ tab = "test"
    /\ \E i \in 1..Len(allItems) :
          /\ allItems[i].type \in {"short", "text", "writing"}
          /\ \E value \in Typed(allItems[i].id) :
                setAnswer(allItems[i].id, value)
    /\ UNCHANGED callVars

\* the self-score buttons with a third one worth two points
ClickSelfScore_twoPoints ==
    /\ tab = "test"
    /\ \E i \in 1..Len(allItems) : allItems[i].type = "writing"
    /\ \E n \in {0, 1, 2} :
          /\ selfScoreWriting' = Num(n)
          /\ lastOp' = <<"setSelfScoreWriting">>
    /\ UNCHANGED <<selectedTestKey, tab, answers, finished>>
    /\ UNCHANGED callVars

\* "Yes (1 point)" and "Not yet (0)", rendered with a writing item
ClickSelfScore ==
    /\ tab = "test"
    /\ \E i \in 1..Len(allItems) : allItems[i].type = "writing"
    /\ \E n \in {0, 1} :
          /\ selfScoreWriting' = Num(n)
          /\ lastOp' = <<"setSelfScoreWriting">>
    /\ UNCHANGED <<selectedTestKey, tab, answers, finished>>
    /\ UNCHANGED callVars

\* "Finish test and view results", rendered in the test view
ClickFinish ==
    /\ tab = "test"
    /\ ~finishDisabled
    /\ finished' = TRUE
    /\ tab' = "results"
    /\ lastOp' = <<"finish">>
    /\ UNCHANGED <<selectedTestKey, answers, selfScoreWriting>>
    /\ UNCHANGED callVars

\* "Back to test", rendered in the results view
ClickBackToTest ==
    /\ tab = "results"
    /\ tab' = "test"
    /\ lastOp' = <<"setTab", "test">>
    /\ UNCHANGED <<selectedTestKey, answers, selfScoreWriting, finished>>
    /\ UNCHANGED callVars

\* "Start over", rendered in the results view
ClickStartOver ==
    /\ tab = "results"
    /\ resetAllToReading
    /\ lastOp' = <<"reset">>
    /\ UNCHANGED callVars

Next ==
    \/ SelectTest
    \/ ClickReading
    \/ ClickTest
    \/ ClickResults
    \/ ClickReset
    \/ ClickStartTheTest
    \/ ChooseOption
    \/ TypeAnswer
    \/ ClickSelfScore
    \/ ClickFinish
    \/ ClickBackToTest
    \/ ClickStartOver

Spec == Init /\ [][Next]_vars

(***************************************************************************)
(* normalize called on its own: the argument is any string of at most      *)
(* MaxLen characters over a letter of each case, a digit, a punctuation    *)
(* mark and two whitespace characters, or is missing                       *)
(***************************************************************************)
MaxLen == 4

NormAlphabet == {"a", "Z", "7", "!", " ", "\t"}

NormInputs ==
    UNION {[1..n -> NormAlphabet] : n \in 0..MaxLen} \cup {undefined}

InitNorm ==
    /\ selectedTestKey = "original"
    /\ tab = "read"
    /\ answers = EmptyAnswers
    /\ selfScoreWriting = null
    /\ finished = FALSE
    /\ lastOp = <<"init">>
    /\ arg \in NormInputs
    /\ ret = undefined

\* ret = normalize(arg)
CallNormalize ==
    /\ ret = undefined
    /\ ret' = normalize(arg)
    /\ UNCHANGED <<arg, sessionVars>>

\* ret = normalize(ret): the result is normalized once more
CallNormalizeAgain ==
    /\ ret # undefined
    /\ arg' = ret
    /\ ret' = normalize(ret)
    /\ UNCHANGED sessionVars

NextNorm ==
    \/ CallNormalize
    \/ CallNormalizeAgain

SpecNorm == InitNorm /\ [][NextNorm]_vars


(***************************************************************************)
(* Properties                                                              *)
(***************************************************************************)
ItemIndexes == 1..Len(allItems)

ItemIds == {allItems[i].id : i \in ItemIndexes}

\* the stored answer of an item, a missing one read as the empty string
StoredIn(ans, it) == IF it.id \in DOMAIN ans THEN ans[it.id] ELSE <<>>

Stored(it) == StoredIn(answers, it)

\* a non-empty answer: a selected option (mcq), non-whitespace text (others)
NonEmptyAnswer(it) ==
    IF it.type = "mcq"
    THEN Stored(it) # <<>>
    ELSE \E k \in 1..Len(Stored(it)) : Stored(it)[k] \notin WhiteSpace

AllNonEmpty == \A i \in ItemIndexes : NonEmptyAnswer(allItems[i])

\* C1: in every reachable state, if the view is results then finished is
\* true.
C1_ResultsOnlyWhenFinished == tab = "results" => finished

C1_Witness == tab = "results" /\ finished /\ lastOp = <<"finish">>

\* C2: a step that changes finished from false to true starts in a state
\* where attempted-count equals the number of items; while an item is
\* unattempted the finish button is not enabled and finished stays false;
\* in the test view, where the button is rendered, it is enabled exactly
\* when attempted-count equals the number of items.
C2_FinishOnlyWhenAllAttempted ==
    /\ [](/\ attemptedCount < Len(allItems) => ~ENABLED ClickFinish
          /\ tab = "test" =>
                (ENABLED ClickFinish <=> attemptedCount = Len(allItems)))
    /\ [][(~finished /\ finished') => attemptedCount = Len(allItems)]_vars

C2_Witness ==
    /\ lastOp = <<"finish">>
    /\ finished
    /\ attemptedCount = Len(allItems)
    /\ selectedTestKey = "original"


\* C3 as stated: in every reachable state in which finished is true, every
\* item of the selected test has a non-empty answer.
C3_FinishedImpliesAllNonEmpty == finished => AllNonEmpty

\* C3 as amended: in the state finish() leaves, every item has a non-empty
\* answer; in every state in which finished is true, every item has an
\* entry in the answer map and every mcq item a selected option (a text,
\* short or writing answer may have been edited to empty since).
C3_FinishedImpliesAllEntered ==
    /\ lastOp = <<"finish">> => AllNonEmpty
    /\ finished =>
          \A i \in ItemIndexes :
             /\ allItems[i].id \in DOMAIN answers
             /\ allItems[i].type = "mcq" => NonEmptyAnswer(allItems[i])

C3_Witness ==
    /\ finished
    /\ tab = "test"
    /\ lastOp[1] = "setAnswer"
    /\ ~AllNonEmpty

\* C4: while the view is test and finished is false, the test select and
\* the Reading button are both disabled; while finished is true they are
\* both enabled; a test switch leaves the answer map empty.
C4_NavigationGuard ==
    /\ (tab = "test" /\ ~finished) =>
          (~ENABLED SelectTest /\ ~ENABLED ClickReading)
    /\ finished => (ENABLED SelectTest /\ ENABLED ClickReading)
    /\ lastOp[1] = "onChangeTest" => answers = EmptyAnswers

C4_Witness ==
    /\ finished
    /\ tab = "test"
    /\ answers # EmptyAnswers
    /\ ENABLED SelectTest
    /\ ENABLED ClickReading

\* C5 as stated: from a state in which the view is test and finished is
\* false, no user action makes the view reading, changes the selected test
\* or empties a non-empty answer map.
C5_NoLossMidTest ==
    [][ (tab = "test" /\ ~finished) =>
           /\ tab' # "read"
           /\ selectedTestKey' = selectedTestKey
           /\ answers # EmptyAnswers => answers' # EmptyAnswers
      ]_vars

\* C5 as amended: from a state in which the view is test and finished is
\* false, no user action other than Reset makes the view reading or
\* empties a non-empty answer map, and no user action at all changes the
\* selected test.
C5_NoLossMidTestButReset ==
    [][ (tab = "test" /\ ~finished) =>
           /\ selectedTestKey' = selectedTestKey
           /\ lastOp' # <<"reset">> =>
                 /\ tab' # "read"
                 /\ answers # EmptyAnswers => answers' # EmptyAnswers
      ]_vars

C5_Witness ==
    /\ tab = "test"
    /\ ~finished
    /\ lastOp[1] = "setAnswer"
    /\ Cardinality(DOMAIN answers) >= 2

\* C6: in every reachable state every key of the answer map is the id of
\* an item of the selected test, and a test switch leaves the answer map
\* empty.
C6_AnswerKeysOfSelectedTest ==
    /\ DOMAIN answers \subseteq ItemIds
    /\ lastOp[1] = "onChangeTest" => answers = EmptyAnswers

C6_Witness ==
    /\ selectedTestKey = "day2"
    /\ finished
    /\ DOMAIN answers = ItemIds

\* C7: selectTest(name) and reset() both leave an empty answer map, an
\* unset writing self-score, finished = false and view = reading;
\* selectTest leaves name selected, reset leaves the selected test as it
\* was.
C7_ResetEffect ==
    [][ /\ lastOp'[1] = "onChangeTest" =>
              /\ answers' = EmptyAnswers
              /\ selfScoreWriting' = null
              /\ finished' = FALSE
              /\ tab' = "read"
              /\ selectedTestKey' = lastOp'[2]
        /\ lastOp' = <<"reset">> =>
              /\ answers' = EmptyAnswers
              /\ selfScoreWriting' = null
              /\ finished' = FALSE
              /\ tab' = "read"
              /\ selectedTestKey' = selectedTestKey
      ]_vars

C7_Witness ==
    /\ lastOp = <<"reset">>
    /\ selectedTestKey = "original"
    /\ answers = EmptyAnswers
    /\ tab = "read"


\* an mcq item whose stored answer code equals the item's answer
McqCorrectIn(ans, it) == it.type = "mcq" /\ StoredIn(ans, it) = it.answer

\* a text item whose stored answer, normalized, equals the normalization
\* of at least one accepted answer
TextCorrectIn(ans, it) ==
    /\ it.type = "text"
    /\ \E j \in DOMAIN it.acceptedAnswers :
          normalize(StoredIn(ans, it)) = normalize(it.acceptedAnswers[j])

CorrectIn(ans, it) == McqCorrectIn(ans, it) \/ TextCorrectIn(ans, it)

McqCorrect(it) == McqCorrectIn(answers, it)

TextCorrect(it) == TextCorrectIn(answers, it)

\* C8: autoScore equals the number of mcq items whose stored answer code
\* equals the item's answer plus the number of text items whose stored
\* answer, normalized, equals the normalization of an accepted answer;
\* short and writing items and missing answers contribute 0.
C8_AutoScoreCountsCorrect ==
    /\ autoScore =
          Cardinality({i \in ItemIndexes : McqCorrect(allItems[i])})
          + Cardinality({i \in ItemIndexes : TextCorrect(allItems[i])})
    /\ \A i \in ItemIndexes :
          allItems[i].id \notin DOMAIN answers =>
             ~McqCorrect(allItems[i]) /\ ~TextCorrect(allItems[i])

\* a text answer that is correct only after normalization, next to a
\* correct mcq answer and answered short and writing items
C8_Witness ==
    /\ selectedTestKey = "original"
    /\ DOMAIN answers = ItemIds
    /\ AllNonEmpty
    /\ answers["v1"] = <<"b">>
    /\ answers["s1"] # TESTS.original.sections[3].items[1].acceptedAnswers[1]
    /\ autoScore = 2

\* C9: a setAnswer on one mcq or text item that turns the item from
\* incorrect to correct raises autoScore by exactly 1; one that keeps the
\* item's correctness leaves autoScore unchanged.
C9_AutoScoreMonotone ==
    [][ \A i \in ItemIndexes :
           LET it == allItems[i]
               before == CorrectIn(answers, it)
               after == CorrectIn(answers', it)
               scoreBefore == autoScoreOf(answers, autoScoredItems)
               scoreAfter == autoScoreOf(answers', autoScoredItems)
           IN  (lastOp' = <<"setAnswer", it.id>> /\ isAutoScored(it)) =>
                  IF before
                  THEN after => scoreAfter = scoreBefore
                  ELSE IF after
                       THEN scoreAfter = scoreBefore + 1
                       ELSE scoreAfter = scoreBefore
      ]_vars

\* Scenario A: d2_1 answered "b", after it was answered "a"
C9_Witness ==
    /\ selectedTestKey = "day2"
    /\ lastOp = <<"setAnswer", "d2_1">>
    /\ answers["d2_1"] = <<"b">>
    /\ "d2_s1" \in DOMAIN answers
    /\ autoScore = 2

\* C10: totalPoints is the number of mcq and text items of the selected
\* test plus 1; finalScore is autoScore plus the writing self-score when
\* it is set and autoScore when it is unset; with all N auto-scored items
\* correct and self-score 0, finalScore = N and totalPoints = N + 1.
C10_Totals ==
    LET N == Cardinality({i \in ItemIndexes :
                             allItems[i].type \in {"mcq", "text"}})
        allCorrect == \A i \in ItemIndexes :
                         allItems[i].type \in {"mcq", "text"} =>
                            McqCorrect(allItems[i]) \/ TextCorrect(allItems[i])
    IN  /\ totalPoints = N + 1
        /\ selfScoreWriting = null => finalScore = autoScore
        /\ selfScoreWriting = Num(0) => finalScore = autoScore
        /\ selfScoreWriting = Num(1) => finalScore = autoScore + 1
        /\ (allCorrect /\ selfScoreWriting = Num(0)) =>
              (finalScore = N /\ totalPoints = N + 1)

C10_Witness ==
    /\ selectedTestKey = "original"
    /\ selfScoreWriting = Num(0)
    /\ autoScore = 2
    /\ finalScore = 2
    /\ totalPoints = 3


\* C11: a setAnswer on a short or writing item, whatever the value and
\* whatever hint it produces, leaves autoScore, finalScore and totalPoints
\* unchanged.
C11_HintsNeverScore ==
    [][ \A i \in ItemIndexes :
           LET it == allItems[i]
           IN  (lastOp' = <<"setAnswer", it.id>>
                   /\ it.type \in {"short", "writing"}) =>
                  LET scoreAfter == autoScoreOf(answers', autoScoredItems)
                  IN  /\ scoreAfter = autoScore
                      /\ finalScoreOf(scoreAfter, selfScoreWriting')
                            = finalScore
                      /\ totalPoints' = totalPoints
      ]_vars

\* a short answer with a keyword was just stored, next to a correct mcq
\* answer
C11_Witness ==
    /\ selectedTestKey = "original"
    /\ lastOp = <<"setAnswer", "r1">>
    /\ \E k \in 1..Len(shortHints) :
          shortHints[k].id = "r1" /\ shortHints[k].ok /\ shortHints[k].hasHint
    /\ autoScore = 1
    /\ finalScore = 1


\* the indexes in allItems of the short items
ShortIndexes == {i \in ItemIndexes : allItems[i].type = "short"}

\* the index in allItems of the k-th short item
NthShort(k) ==
    CHOOSE i \in ShortIndexes :
       Cardinality({j \in ShortIndexes : j <= i}) = k

\* the normalized stored answer contains the normalization of a keyword
HasKeywordOf(it) ==
    \E j \in DOMAIN it.keywords :
       includes(normalize(Stored(it)), normalize(it.keywords[j]))

\* C12: shortHints has exactly one entry per short item of the selected
\* test, in item order, and none for other kinds; ok is true iff the
\* stored answer has non-whitespace content; hasHint is true when the item
\* has no keywords (absent or empty) and otherwise iff the normalized
\* answer contains the normalization of a keyword.  Scenario C: for r1
\* "She felt a bit nervous." gives hasHint, "She felt happy." gives ok
\* without hasHint.
C12_ShortHints ==
    /\ Len(shortHints) = Cardinality(ShortIndexes)
    /\ \A k \in 1..Len(shortHints) :
          LET it == allItems[NthShort(k)]
              h == shortHints[k]
              noKeywords == "keywords" \notin DOMAIN it \/ it.keywords = <<>>
          IN  /\ h.id = it.id
              /\ h.ok <=> \E c \in 1..Len(Stored(it)) :
                             Stored(it)[c] \notin WhiteSpace
              /\ h.hasHint <=> (noKeywords \/ HasKeywordOf(it))
              /\ (it.id = "r1" /\ Stored(it) = <<"S","h","e"," ","f","e","l","t"," ","a"," ","b","i","t"," ","n","e","r","v","o","u","s",".">>)
                    => h.hasHint
              /\ (it.id = "r1" /\ Stored(it) = <<"S","h","e"," ","f","e","l","t"," ","h","a","p","p","y",".">>)
                    => (~h.hasHint /\ h.ok)

C12_Witness ==
    /\ selectedTestKey = "original"
    /\ "r1" \in DOMAIN answers
    /\ answers["r1"] = <<"S","h","e"," ","f","e","l","t"," ","h","a","p","p","y",".">>
    /\ Len(shortHints) = 1
    /\ shortHints[1].ok
    /\ ~shortHints[1].hasHint

\* C13: normalize is idempotent and total. Whatever the argument (letters of
\* both cases, digits, punctuation, whitespace, the empty string or a missing
\* argument), the call returns a string; normalizing the result once more
\* returns it unchanged; the result holds only lowercase letters, digits and
\* spaces, no two spaces in a row, and no space at either end. The empty and
\* the missing argument give the empty string.
IsNormalized(r) ==
    /\ \A i \in 1..Len(r) : r[i] \in Range(LowerLetters) \cup Digits \cup {" "}
    /\ \A i \in 1..(Len(r) - 1) : ~(r[i] = " " /\ r[i + 1] = " ")
    /\ Len(r) > 0 => r[1] # " " /\ r[Len(r)] # " "

C13_NormalizeIdempotentTotal ==
    /\ LET r == normalize(arg)
       IN  /\ DOMAIN r = 1..Len(r)
           /\ ret # undefined => ret = r
    /\ ret # undefined =>
          /\ normalize(ret) = ret
          /\ IsNormalized(ret)
          /\ (arg \in {undefined, <<>>}) => ret = <<>>

C13_Witness ==
    /\ arg = <<"Z", "!", "\t", "a">>
    /\ ret = <<"z", " ", "a">>

C13_WitnessMissing ==
    /\ arg = undefined
    /\ ret = <<>>

\* C14: in every reachable state isComplete is true exactly when
\* attemptedCount equals the number of items of the selected test. The number
\* of items counts the short and writing items, which are not auto-scored;
\* an item counts as attempted exactly when the completion check counts it as
\* answered; and the Finish button is disabled exactly when the two numbers
\* differ.
C14_CompleteIffAllAttempted ==
    /\ isComplete <=> (attemptedCount = Len(allItems))
    /\ finishDisabled <=> (attemptedCount # Len(allItems))
    /\ attemptedCount <= Len(allItems)
    /\ Len(allItems) =
          Len(autoScoredItems)
            + Cardinality({i \in ItemIndexes :
                             allItems[i].type \in {"short", "writing"}})
    /\ \E i \in ItemIndexes : allItems[i].type = "writing"
    /\ \A i \in ItemIndexes :
          isAttempted(answers, allItems[i]) <=> isAnswered(answers, allItems[i])

C14_Witness ==
    /\ selectedTestKey = "day2"
    /\ tab = "test"
    /\ ~finished
    /\ isComplete
    /\ attemptedCount = Len(allItems)
    /\ ~finishDisabled

\* the section of the selected test that holds the item of the given id
SectionIndexOf(id) ==
    CHOOSE k \in 1..Len(TEST.sections) :
        \E n \in 1..Len(TEST.sections[k].items) : TEST.sections[k].items[n].id = id

\* one entry per item of the selected test, in section order then item order
ExportOneEntryPerItem ==
    /\ Len(exportEntries) = Len(allItems)
    /\ \A i \in ItemIndexes :
          /\ exportEntries[i].id = allItems[i].id
          /\ exportEntries[i].name = TEST.sections[SectionIndexOf(allItems[i].id)].name
    /\ \A i, j \in ItemIndexes :
          i <= j => SectionIndexOf(allItems[i].id) <= SectionIndexOf(allItems[j].id)

\* an answered mcq renders as the upper-cased code, ") " and the label of the
\* chosen option; every other answered item renders the stored string
ExportAnsweredRendering ==
    \A i \in ItemIndexes :
        LET it == allItems[i]
        IN  isAttempted(answers, it) =>
               IF it.type = "mcq"
               THEN \E k \in 1..Len(it.options) :
                       /\ it.options[k].id = answers[it.id]
                       /\ exportEntries[i].answer =
                             toUpperCase(answers[it.id]) \o <<")", " ">>
                               \o it.options[k].label
               ELSE exportEntries[i].answer = answers[it.id]

\* C15 as stated: in the results view the export has one entry per item, in
\* section order then item order; an entry's answer is the placeholder
\* exactly when the item is unattempted; an answered mcq renders as code,
\* ") " and label, every other answered item as the stored string.
C15_ExportPlaceholderIffUnattempted ==
    tab = "results" =>
        /\ ExportOneEntryPerItem
        /\ ExportAnsweredRendering
        /\ \A i \in ItemIndexes :
              (exportEntries[i].answer = placeholder)
                 <=> ~isAttempted(answers, allItems[i])

\* C15 amended: as above, but the answer of an unattempted item is the
\* placeholder, and the answer of an attempted item is the placeholder only
\* when the stored string is itself that text.
C15_ExportRendering ==
    tab = "results" =>
        /\ ExportOneEntryPerItem
        /\ ExportAnsweredRendering
        /\ \A i \in ItemIndexes :
              LET it == allItems[i]
              IN  /\ ~isAttempted(answers, it) =>
                        exportEntries[i].answer = placeholder
                  /\ (isAttempted(answers, it)
                        /\ exportEntries[i].answer = placeholder) =>
                        (it.type # "mcq" /\ answers[it.id] = placeholder)

C15_Witness ==
    /\ selectedTestKey = "day2"
    /\ tab = "results"
    /\ Len(exportEntries) = 4
    /\ exportEntries[1].answer = <<"B", ")", " ", "g", "o", "e", "s">>
    /\ "d2_s1" \in DOMAIN answers /\ answers["d2_s1"] = <<" ">>
    /\ exportEntries[2].answer = placeholder
    /\ exportEntries[3].answer = <<"I"," ","l","i","k","e"," ","E","n","g","l","i","s","h",".">>
    /\ "d2_w1" \in DOMAIN answers /\ answers["d2_w1"] = <<>>
    /\ exportEntries[4].answer = placeholder

\* the values setAnswer is called with for an item: an option id of an mcq
\* item, the text of a textarea for the others
ValuesFor(it) ==
    IF it.type = "mcq"
    THEN {it.options[k].id : k \in 1..Len(it.options)}
    ELSE Typed(it.id)

\* C16: setAnswer(itemId, value) changes only the entry of itemId: the map
\* gains or rewrites that entry with the value passed, every other entry of
\* the answer map, the selected test, the view, the writing self-score and
\* the finished flag are unchanged; when it follows a setAnswer on another
\* item, that item's entry is still there with its value.
C16_SetAnswerFrame ==
    /\ [](\A i \in ItemIndexes :
             lastOp = <<"setAnswer", allItems[i].id>> =>
                /\ allItems[i].id \in DOMAIN answers
                /\ answers[allItems[i].id] \in ValuesFor(allItems[i]))
    /\ [][ \A i \in ItemIndexes :
              LET id == allItems[i].id
              IN  lastOp' = <<"setAnswer", id>> =>
                     /\ DOMAIN answers' = DOMAIN answers \cup {id}
                     /\ \A k \in DOMAIN answers \ {id} : answers'[k] = answers[k]
                     /\ UNCHANGED <<selectedTestKey, tab, selfScoreWriting,
                                    finished>>
                     /\ \A j \in ItemIndexes \ {i} :
                           lastOp = <<"setAnswer", allItems[j].id>> =>
                              /\ allItems[j].id \in DOMAIN answers'
                              /\ answers'[allItems[j].id] = answers[allItems[j].id]
          ]_vars

C16_Witness ==
    /\ selectedTestKey = "original"
    /\ tab = "test"
    /\ lastOp = <<"setAnswer", "v1">>
    /\ DOMAIN answers = {"r1", "v1"}
    /\ answers["r1"] = <<"S","h","e"," ","f","e","l","t"," ","h","a","p","p","y",".">>
    /\ answers["v1"] = <<"c">>

\* C17: in every reachable state where the view is reading and finished is
\* false, the answer map is empty and the writing self-score is unset; so
\* answers or a self-score are seen in the reading view only when finished
\* is true.
C17_ReadingUnfinishedIsBlank ==
    (tab = "read" /\ ~finished) =>
        (answers = EmptyAnswers /\ selfScoreWriting = null)

C17_Witness ==
    /\ selectedTestKey = "day1"
    /\ tab = "read"
    /\ ~finished
    /\ lastOp = <<"reset">>
    /\ answers = EmptyAnswers
    /\ selfScoreWriting = null

C17_WitnessAfterFinish ==
    /\ tab = "read"
    /\ finished
    /\ answers # EmptyAnswers
    /\ selfScoreWriting = Num(1)

\* C18: in every reachable state the writing self-score is unset, 0 or 1,
\* autoScore lies between 0 and totalAutoPoints, finalScore between 0 and
\* totalPoints, and the percentage shown with the result lies between 0 and
\* 100.
C18_ScoresInRange ==
    LET auto == autoScore
        final == finalScoreOf(auto, selfScoreWriting)
        percent == roundDiv(final * 100, totalPoints)
    IN  /\ selfScoreWriting \in {null, Num(0), Num(1)}
        /\ 0 <= auto /\ auto <= totalAutoPoints
        /\ 0 <= final /\ final <= totalPoints
        /\ totalPoints > 0
        /\ 0 <= percent /\ percent <= 100

C18_Witness ==
    /\ selectedTestKey = "original"
    /\ tab = "results"
    /\ selfScoreWriting = Num(1)
    /\ autoScore = totalAutoPoints
    /\ finalScore = totalPoints
    /\ resultPercent = 100

====
